---- MODULE Spec2Model ----
(***************************************************************************)
(* Model of moltbook-reader (src/moltbook/__init__.py): the credential     *)
(* lookup get_api_key, the request/retry loop make_request, the text       *)
(* helpers truncate_text / maybe_truncate and the command handlers that    *)
(* render a response envelope.                                             *)
(*                                                                         *)
(* Python strings are sequences of one-character strings; None is the      *)
(* value None below.                                                       *)
(***************************************************************************)
EXTENDS Integers, Sequences, FiniteSets, TLC

VARIABLES
    pc,           \* position of the invocation
    cmd,          \* the subcommand, or "make_request" for a direct call
    json_out,     \* --json-out
    no_truncate,  \* --no-truncate
    limit,        \* --limit
    env,          \* os.environ.get("MOLTBOOK_API_KEY")
    file,         \* state of ~/.config/moltbook/credentials.json
    envelope,     \* what the server's body deserializes to when it is JSON
    auth,         \* make_request's auth argument
    headers,      \* make_request's headers["Authorization"], or None
    attempt,      \* make_request's loop variable
    last,         \* the response (or transport error) of the latest GET
    sleeps,       \* the time.sleep calls, in order: the seconds slept and
                  \* whether they came from the Retry-After header
    sent,         \* the Authorization header of every GET issued, in order
    result,       \* make_request's return value
    raised,       \* the exception leaving the invocation, or None
    exit_code,    \* sys.exit status, or -1 while the process runs
    out,          \* what console.print / console.print_json emitted, in order
    text,         \* argument of maybe_truncate
    max_length,   \* argument of maybe_truncate
    shown         \* return value of maybe_truncate

vars == <<pc, cmd, json_out, no_truncate, limit, env, file, envelope, auth,
          headers, attempt, last, sleeps, sent, result, raised, exit_code,
          out, text, max_length, shown>>

None == <<"None">>

\* An exception, named by its class
Exception(name) == <<name>>

\* Python truthiness of an Optional[str] / list / dict value
Truthy(v) == v # None /\ v # <<>>

(***************************************************************************)
(* Constants of the program                                                *)
(***************************************************************************)
MAX_RETRIES == 3
RETRY_STATUSES == {429, 500, 502, 503, 504}
\* RETRY_BACKOFF = 1.5, kept as the exact fraction 3/2
RETRY_BACKOFF_NUM == 3
RETRY_BACKOFF_DEN == 2

(***************************************************************************)
(* str.isdigit() and int(): isdigit accepts every character with the       *)
(* Unicode Digit property, int() only the decimal ones.  A header value is *)
(* decoded as latin-1, so the superscripts U+00B2, U+00B3, U+00B9 can      *)
(* occur: they pass isdigit() and make int() raise ValueError.             *)
(***************************************************************************)
DecimalChars == {"0", "1", "2", "3", "4", "5", "6", "7", "8", "9"}
SuperscriptChars == {"²", "³", "¹"}

DigitValue(c) ==
    CASE c = "0" -> 0 [] c = "1" -> 1 [] c = "2" -> 2 [] c = "3" -> 3
      [] c = "4" -> 4 [] c = "5" -> 5 [] c = "6" -> 6 [] c = "7" -> 7
      [] c = "8" -> 8 [] c = "9" -> 9

isdigit(s) ==
    /\ Len(s) > 0
    /\ \A i \in 1..Len(s) : s[i] \in DecimalChars \cup SuperscriptChars

\* int(s) raises ValueError unless IntParses(s)
IntParses(s) ==
    /\ Len(s) > 0
    /\ \A i \in 1..Len(s) : s[i] \in DecimalChars

RECURSIVE int(_)
int(s) ==
    IF Len(s) = 0 THEN 0
    ELSE 10 * int(SubSeq(s, 1, Len(s) - 1)) + DigitValue(s[Len(s)])

RECURSIVE Pow(_, _)
Pow(b, n) == IF n = 0 THEN 1 ELSE b * Pow(b, n - 1)

\* A variant that rounds (3/2)^attempt up instead of toward zero
BackoffCeiling(n) ==
    (Pow(RETRY_BACKOFF_NUM, n) + Pow(RETRY_BACKOFF_DEN, n) - 1)
        \div Pow(RETRY_BACKOFF_DEN, n)

\* int(RETRY_BACKOFF ** attempt): truncation toward zero of (3/2)^attempt
Backoff(n) == Pow(RETRY_BACKOFF_NUM, n) \div Pow(RETRY_BACKOFF_DEN, n)

(***************************************************************************)
(* get_api_key                                                             *)
(***************************************************************************)
Key1 == <<"k", "1">>
Key2 == <<"k", "2">>

\* os.environ.get("MOLTBOOK_API_KEY"): unset, set to "", set to a key
EnvValues == {None, <<>>, Key1}

\* The credentials file:
\*   missing     CONFIG_PATH.exists() is False
\*   unreadable  open() raises an OSError (IOError)
\*   notutf8     json.load raises UnicodeDecodeError
\*   notjson     json.load raises json.JSONDecodeError
\*   nonobject   valid JSON that is no object (a list, a string, a number, null)
\*   nokey       a JSON object without "api_key"
\*   key         a JSON object with "api_key": Key2
FileStates == {"missing", "unreadable", "notutf8", "notjson", "nonobject",
               "nokey", "key"}

\* The exception get_api_key lets through, or None
get_api_key_raises(e, f) ==
    IF Truthy(e) THEN None
    ELSE CASE f = "notutf8" -> Exception("UnicodeDecodeError")
           [] f = "nonobject" -> Exception("AttributeError")
           [] OTHER -> None

\* The value get_api_key returns when it raises nothing
get_api_key(e, f) ==
    IF Truthy(e) THEN e
    ELSE CASE f = "key" -> Key2
           [] OTHER -> None

(***************************************************************************)
(* Responses of requests.get                                               *)
(***************************************************************************)
\* Values of the Retry-After header (response.headers.get("Retry-After"))
RetryAfterValues ==
    {None, <<>>, <<"0">>, <<"1", "2">>, <<"²">>, <<"x">>, <<"1", ".", "5">>}

\* Statuses raise_for_status lets through: 2xx, and a 3xx that is final
SuccessStatuses == {200, 204}
OkStatuses == SuccessStatuses \cup {304}
ErrorStatuses == {401, 404, 501}
Statuses == OkStatuses \cup ErrorStatuses \cup RETRY_STATUSES

\* kind "response": the server answered; any other kind is the exception
\* requests.get raised ("RequestException" stands for the ones that are
\* neither Timeout nor ConnectionError, such as TooManyRedirects).
NoResponse == [kind |-> "none", status |-> 0, retry_after |-> None,
               body |-> "none"]
Exc(k) == [kind |-> k, status |-> 0, retry_after |-> None, body |-> "none"]
Resp(s, h, b) == [kind |-> "response", status |-> s, retry_after |-> h,
                  body |-> b]

TransportErrors == {Exc("Timeout"), Exc("ConnectionError"),
                    Exc("RequestException")}

Responses ==
    {Resp(s, None, b) : s \in OkStatuses, b \in {"json", "bad"}}
    \cup {Resp(s, None, "bad") : s \in ErrorStatuses}
    \cup {Resp(s, h, "bad") : s \in RETRY_STATUSES, h \in RetryAfterValues}
    \cup TransportErrors

\* The responses without Retry-After headers
PlainResponses == {r \in Responses : r.retry_after = None}

(***************************************************************************)
(* truncate_text and maybe_truncate                                        *)
(***************************************************************************)
Ellipsis == <<".", ".", ".">>

\* The characters str.rstrip() removes
Whitespace == {" ", "\t", "\n", "\r"}

\* text.replace("\n", " ").replace("\r", "")
RECURSIVE CollapseNewlines(_)
CollapseNewlines(s) ==
    IF s = <<>> THEN <<>>
    ELSE (CASE Head(s) = "\n" -> <<" ">>
            [] Head(s) = "\r" -> <<>>
            [] OTHER -> <<Head(s)>>) \o CollapseNewlines(Tail(s))

RECURSIVE rstrip(_)
rstrip(s) ==
    IF s # <<>> /\ s[Len(s)] \in Whitespace
    THEN rstrip(SubSeq(s, 1, Len(s) - 1))
    ELSE s

\* The slice s[:n]
SlicePrefix(s, n) ==
    IF n >= 0
    THEN SubSeq(s, 1, IF n < Len(s) THEN n ELSE Len(s))
    ELSE SubSeq(s, 1, IF Len(s) + n > 0 THEN Len(s) + n ELSE 0)

\* A variant that keeps the trailing whitespace of the clipped text
truncate_text_unstripped(t, m) ==
    IF ~Truthy(t) THEN <<>>
    ELSE IF Len(CollapseNewlines(t)) > m
    THEN SlicePrefix(CollapseNewlines(t), m) \o Ellipsis
    ELSE CollapseNewlines(t)

\* lines 107-114
truncate_text(t, m) ==
    IF ~Truthy(t) THEN <<>>
    ELSE IF Len(CollapseNewlines(t)) > m
    THEN rstrip(SlicePrefix(CollapseNewlines(t), m)) \o Ellipsis
    ELSE CollapseNewlines(t)

\* text or ""
OrEmpty(t) == IF Truthy(t) THEN t ELSE <<>>

\* lines 117-120
maybe_truncate(t, m, nt) ==
    IF nt THEN OrEmpty(t) ELSE truncate_text(OrEmpty(t), m)

(***************************************************************************)
(* JSON values: an object is a record, a list a sequence.  Python's None   *)
(* as a return value is JNull.                                             *)
(***************************************************************************)
Obj(r) == [t |-> "object", v |-> r]
JList(l) == [t |-> "list", v |-> [items |-> l]]
JNull == [t |-> "null", v |-> [null |-> TRUE]]

\* An object with none of the fields the commands read
OtherObject == Obj([message |-> "ok"])

\* dict.get(key, default) on a record
Get(d, k, default) == IF k \in DOMAIN d THEN d[k] ELSE default

(***************************************************************************)
(* Console output                                                          *)
(***************************************************************************)
Line(t) == [kind |-> "line", text |-> t]
ErrorLine(t, s) == [kind |-> "error", text |-> t, status |-> s]
Json(d) == [kind |-> "json", data |-> d]

(***************************************************************************)
(* make_request                                                            *)
(***************************************************************************)
\* lines 62-67: the Authorization header, built once before the loop
BuildHeaders(a, e, f) ==
    IF a /\ Truthy(get_api_key(e, f)) THEN get_api_key(e, f) ELSE None

\* A variant that resolves the credential again for every GET
RequestHeadersFresh(h, a, e, f) ==
    IF a /\ Truthy(get_api_key(e, f)) THEN get_api_key(e, f) ELSE None

\* line 72: every GET of the loop is given the headers built before it
RequestHeaders(h, a, e, f) == h

\* A variant whose retry test lets the last attempt retry too
ShouldRetryInclusive(status, n) ==
    status \in RETRY_STATUSES /\ n <= MAX_RETRIES

\* line 74
ShouldRetry(status, n) == status \in RETRY_STATUSES /\ n < MAX_RETRIES

\* line 76
UsesRetryAfter(h) == Truthy(h) /\ isdigit(h)

\* lines 77 and 79 (line 77 raises ValueError unless IntParses(h))
WaitSeconds(h, n) == IF UsesRetryAfter(h) THEN int(h) ELSE Backoff(n)

\* response.raise_for_status()
RaisesHTTPError(status) == status >= 400 /\ status < 600

\* sys.exit(1) after console.print of the message
Exit(item) ==
    /\ out' = Append(out, item)
    /\ exit_code' = 1
    /\ pc' = "exited"
    /\ UNCHANGED <<attempt, sleeps, result, raised>>

Propagate(e) ==
    /\ raised' = e
    /\ pc' = "raised"
    /\ UNCHANGED <<attempt, sleeps, result, exit_code, out>>

Return(d) ==
    /\ result' = d
    /\ pc' = "returned"
    /\ UNCHANGED <<attempt, sleeps, raised, exit_code, out>>

\* lines 59-67
MakeRequestStart ==
    /\ pc = "call"
    /\ IF auth /\ get_api_key_raises(env, file) # None
       THEN /\ raised' = get_api_key_raises(env, file)
            /\ pc' = "raised"
            /\ UNCHANGED headers
       ELSE /\ headers' = BuildHeaders(auth, env, file)
            /\ pc' = "get"
            /\ UNCHANGED raised
    /\ UNCHANGED <<cmd, json_out, no_truncate, limit, env, file, envelope,
                   auth, attempt, last, sleeps, sent, result, exit_code, out,
                   text, max_length, shown>>

\* lines 70-95: one iteration of the loop, r being what requests.get gives
Request(r) ==
    /\ pc = "get"
    /\ last' = r
    /\ sent' = Append(sent, RequestHeaders(headers, auth, env, file))
    /\ CASE r.kind = "Timeout" ->
              Exit(ErrorLine("Request timed out", 0))
         [] r.kind = "ConnectionError" ->
              Exit(ErrorLine("Could not connect to Moltbook", 0))
         [] r.kind = "RequestException" ->
              Propagate(Exception("RequestException"))
         [] OTHER ->
              IF ShouldRetry(r.status, attempt)
              THEN IF UsesRetryAfter(r.retry_after)
                      /\ ~IntParses(r.retry_after)
                   THEN Propagate(Exception("ValueError"))
                   ELSE /\ sleeps' = Append(sleeps,
                             [seconds |-> WaitSeconds(r.retry_after, attempt),
                              hinted |-> UsesRetryAfter(r.retry_after)])
                        /\ IF attempt + 1 <= MAX_RETRIES
                           THEN /\ attempt' = attempt + 1
                                /\ pc' = "get"
                                /\ UNCHANGED result
                           ELSE \* range(MAX_RETRIES + 1) is exhausted: the
                                \* function ends without a return statement
                                /\ attempt' = attempt
                                /\ pc' = "returned"
                                /\ result' = JNull
                        /\ UNCHANGED <<raised, exit_code, out>>
              ELSE IF RaisesHTTPError(r.status)
              THEN Exit(ErrorLine("HTTP", r.status))
              ELSE IF r.body = "json"
              THEN Return(envelope)
              ELSE Exit(ErrorLine("Invalid JSON response", 0))
    /\ UNCHANGED <<cmd, json_out, no_truncate, limit, env, file, envelope,
                   auth, headers, text, max_length, shown>>

\* The environment variable or the credentials file changes while the
\* process runs (another process edits them)
EnvChange(e, f) ==
    /\ pc \in {"cmd", "call", "get"}
    /\ <<e, f>> # <<env, file>>
    /\ env' = e
    /\ file' = f
    /\ UNCHANGED <<pc, cmd, json_out, no_truncate, limit, envelope, auth,
                   headers, attempt, last, sleeps, sent, result, raised,
                   exit_code, out, text, max_length, shown>>

(***************************************************************************)
(* Spec: one call of make_request                                          *)
(***************************************************************************)
CallEnvelopes == {Obj([success |-> TRUE])}

InitLocals ==
    /\ headers = None
    /\ attempt = 0
    /\ last = NoResponse
    /\ sleeps = <<>>
    /\ sent = <<>>
    /\ result = JNull
    /\ raised = None
    /\ exit_code = -1
    /\ out = <<>>

NoTruncateCall ==
    /\ text = None
    /\ max_length = 0
    /\ shown = None

Init ==
    /\ pc = "call"
    /\ cmd = "make_request"
    /\ json_out = FALSE
    /\ no_truncate = FALSE
    /\ limit = 0
    /\ env \in EnvValues
    /\ file \in FileStates
    /\ envelope \in CallEnvelopes
    /\ auth \in BOOLEAN
    /\ InitLocals
    /\ NoTruncateCall

Next ==
    \/ MakeRequestStart
    \/ \E r \in Responses : Request(r)

Spec == Init /\ [][Next]_vars

(***************************************************************************)
(* SpecEnv: one call of make_request while the environment variable and    *)
(* the credentials file change under it                                    *)
(***************************************************************************)
NextEnv ==
    \/ MakeRequestStart
    \/ \E r \in PlainResponses : Request(r)
    \/ \E e \in EnvValues, f \in FileStates : EnvChange(e, f)

SpecEnv == Init /\ [][NextEnv]_vars

(***************************************************************************)
(* Properties of make_request                                              *)
(***************************************************************************)
Retryable(r) == r.kind = "response" /\ r.status \in RETRY_STATUSES
Gets == Len(sent)
Seconds(i) == sleeps[i].seconds
HTTPErrorExit(status) ==
    /\ pc = "exited"
    /\ exit_code = 1
    /\ out = <<ErrorLine("HTTP", status)>>

\* C1: a retryable response among the first three is followed by a sleep and
\* another GET, and a 2xx response with a JSON body ends the call with that
\* body returned, nothing printed and no exit.
C1_RetriesThenReturnsBody ==
    /\ (Retryable(last) /\ Gets <= MAX_RETRIES) =>
          (pc = "get" /\ Len(sleeps) = Gets /\ attempt = Gets)
    /\ (last.kind = "response" /\ last.status \in SuccessStatuses
            /\ last.body = "json") =>
          (pc = "returned" /\ result = envelope /\ out = <<>>
              /\ exit_code = -1 /\ raised = None /\ Len(sleeps) = Gets - 1)

\* C2: at most 4 GETs and 3 sleeps; a retryable 4th response is not slept on
\* but exits with "HTTP {status}"; a non-retryable error status exits at once
\* with "HTTP {status}" on the attempt that received it.
C2_RetryBudget ==
    /\ Gets <= MAX_RETRIES + 1
    /\ Len(sleeps) <= MAX_RETRIES
    /\ (Retryable(last) /\ Gets = MAX_RETRIES + 1) =>
          (HTTPErrorExit(last.status) /\ Len(sleeps) = MAX_RETRIES)
    /\ (last.kind = "response" /\ last.status \in ErrorStatuses) =>
          (HTTPErrorExit(last.status) /\ Len(sleeps) = Gets - 1)

C2_Witness ==
    /\ Gets = MAX_RETRIES + 1
    /\ Retryable(last)
    /\ pc = "exited"
    /\ Len(sleeps) = MAX_RETRIES

\* C3: a call that has issued a GET and is over has returned the
\* deserialized body of a successful response, or has exited with status 1
\* after printing exactly one of the four messages; no exception leaves
\* make_request.  Stated for responses without a Retry-After header, so that
\* the failure it finds is the request's own.
FourMessages ==
    {ErrorLine("Request timed out", 0),
     ErrorLine("Could not connect to Moltbook", 0),
     ErrorLine("Invalid JSON response", 0)}
    \cup {ErrorLine("HTTP", st) : st \in Statuses}

C3_ReturnsOrExitsOne ==
    (Gets >= 1 /\ last.retry_after = None) =>
        /\ pc # "raised"
        /\ raised = None
        /\ pc = "returned" =>
              (result = envelope /\ last.kind = "response"
                  /\ last.body = "json" /\ out = <<>> /\ exit_code = -1)
        /\ pc = "exited" =>
              (exit_code = 1 /\ Len(out) = 1 /\ out[1] \in FourMessages)

\* C4: every GET of one call carries the same Authorization header (the same
\* token, or none), whatever happens to the environment in between.
C4_SameAuthorizationOnEveryAttempt ==
    \A i, j \in 1..Gets : sent[i] = sent[j]

\* A call with a retry whose credential sources resolve differently by now
C4_Witness ==
    /\ Gets >= 2
    /\ sent[1] # None
    /\ BuildHeaders(auth, env, file) # sent[1]

\* The value of a string of Unicode digits
UnicodeDigitValue(c) ==
    CASE c = "²" -> 2 [] c = "³" -> 3 [] c = "¹" -> 1
      [] OTHER -> DigitValue(c)

RECURSIVE HintValue(_)
HintValue(h) ==
    IF Len(h) = 0 THEN 0
    ELSE 10 * HintValue(SubSeq(h, 1, Len(h) - 1)) + UnicodeDigitValue(h[Len(h)])

\* C5: after a retryable response (attempt index 0..2) whose Retry-After
\* value is present and numeric, the call sleeps that value exactly.
C5_NumericHintIsTheWait ==
    (Retryable(last) /\ Gets <= MAX_RETRIES /\ UsesRetryAfter(last.retry_after))
        => /\ Len(sleeps) = Gets
           /\ Seconds(Gets) = HintValue(last.retry_after)

\* C6: after a retryable response (attempt index 0..2) without a usable
\* Retry-After value the call sleeps 1, 1, 2 seconds for index 0, 1, 2; a
\* call that used up its retries without any hint slept 4 seconds in all.
C6_BackoffWaits ==
    /\ (Retryable(last) /\ Gets <= MAX_RETRIES
            /\ ~UsesRetryAfter(last.retry_after))
          => /\ Len(sleeps) = Gets
             /\ Seconds(Gets) = <<1, 1, 2>>[Gets]
             /\ ~sleeps[Gets].hinted
    /\ (Len(sleeps) = MAX_RETRIES
            /\ \A i \in 1..Len(sleeps) : ~sleeps[i].hinted)
          => Seconds(1) + Seconds(2) + Seconds(3) = 4

C6_Witness ==
    /\ pc = "exited"
    /\ Gets = MAX_RETRIES + 1
    /\ Len(sleeps) = MAX_RETRIES
    /\ \A i \in 1..Len(sleeps) : ~sleeps[i].hinted

\* C7: with the environment variable absent, a credentials file that is
\* missing, unreadable, not JSON, or JSON that is not an object holding the
\* key makes get_api_key give None without raising: make_request with auth
\* set goes on to its GET, sent without an Authorization header.
C7_FileFailureMeansNoCredential ==
    (auth /\ env = None /\ pc # "call"
        /\ file \in {"missing", "unreadable", "notjson", "nonobject", "nokey"})
        => /\ raised \notin {Exception("AttributeError"),
                             Exception("UnicodeDecodeError")}
           /\ headers = None
           /\ \A i \in 1..Gets : sent[i] = None
           /\ (Gets = 0 => pc = "get")

(***************************************************************************)
(* SpecTruncate: one call of maybe_truncate                                *)
(***************************************************************************)
MaxTextLen == 4
MaxMaxLength == 3

TextChars == {"a", " ", "\n", "\r"}

RECURSIVE TextsOfLen(_)
TextsOfLen(n) ==
    IF n = 0 THEN {<<>>}
    ELSE {Append(t, c) : t \in TextsOfLen(n - 1), c \in TextChars}

Texts == UNION {TextsOfLen(n) : n \in 0..MaxTextLen}

MaybeTruncate ==
    /\ pc = "truncate"
    /\ shown' = maybe_truncate(text, max_length, no_truncate)
    /\ pc' = "end"
    /\ UNCHANGED <<cmd, json_out, no_truncate, limit, env, file, envelope,
                   auth, headers, attempt, last, sleeps, sent, result, raised,
                   exit_code, out, text, max_length>>

InitTruncate ==
    /\ pc = "truncate"
    /\ cmd = "maybe_truncate"
    /\ json_out = FALSE
    /\ no_truncate \in BOOLEAN
    /\ limit = 0
    /\ env = None
    /\ file = "missing"
    /\ envelope = JNull
    /\ auth = FALSE
    /\ InitLocals
    /\ text \in Texts \cup {None}
    /\ max_length \in 0..MaxMaxLength
    /\ shown = None

NextTruncate == MaybeTruncate

SpecTruncate == InitTruncate /\ [][NextTruncate]_vars

Truncated == pc = "end" /\ cmd = "maybe_truncate" /\ text # None
Collapsed == CollapseNewlines(text)

\* C8, in the specification's words: text longer than max after newline
\* collapsing gives exactly max+3 characters, the first max of the collapsed
\* text and "..."; text at or under max gives the collapsed text; no-truncate
\* gives the input.
C8_TruncatesToExactlyMaxPlus3 ==
    Truncated =>
        IF no_truncate THEN shown = text
        ELSE IF Len(Collapsed) > max_length
        THEN /\ Len(shown) = max_length + 3
             /\ shown = SubSeq(Collapsed, 1, max_length) \o Ellipsis
        ELSE shown = Collapsed

\* C8, as the code has it: the clipped text is the first max characters of the
\* collapsed text (\n replaced by a space, \r removed) with their trailing
\* whitespace removed, then "...": at most max+3 characters, and exactly max+3
\* when the max-th character is no whitespace (or max is 0).
C8_TruncatesAndStripsTrailingSpace ==
    Truncated =>
        IF no_truncate THEN shown = text
        ELSE IF Len(Collapsed) > max_length
        THEN \E k \in 0..max_length :
               /\ shown = SubSeq(Collapsed, 1, k) \o Ellipsis
               /\ Len(shown) = k + 3
               /\ k > 0 => Collapsed[k] \notin Whitespace
               /\ \A i \in (k + 1)..max_length : Collapsed[i] \in Whitespace
        ELSE /\ shown = Collapsed
             /\ Len(shown) <= max_length
             /\ \A i \in 1..Len(shown) : shown[i] \notin {"\n", "\r"}

\* A clipped text shorter than max+3: the cut fell after a space
C8_Witness ==
    /\ Truncated
    /\ ~no_truncate
    /\ Len(Collapsed) > max_length
    /\ Len(shown) < max_length + 3
    /\ Len(text) > Len(Collapsed)

(***************************************************************************)
(* The command handlers                                                    *)
(***************************************************************************)
Commands == {"search", "browse", "comments", "fetch", "submolts", "whoami"}

\* The commands declared with @click.option("--json-out", "-j", ...)
HasJsonOut(c) == c \in {"search", "browse", "comments", "fetch", "submolts"}

\* The commands that look the credential up before the request
ChecksKey(c) == c \in {"search", "comments", "whoami"}

\* The auth argument each command gives make_request
CommandAuth(c) == c \in {"search", "comments", "whoami"}

Table(rows) == [kind |-> "table", rows |-> rows]
Panel(title, body) == [kind |-> "panel", title |-> title, body |-> body]

\* lines 146-147 and 290-291
NoKeyWarning ==
    <<Line("Warning: No API key found"),
      Line("Set MOLTBOOK_API_KEY env var or save key to credentials.json")>>

\* lines 465-468
NoKeyConfigured ==
    <<Line("No API key configured."), Line("To configure, either:"),
      Line("1. Set MOLTBOOK_API_KEY environment variable"),
      Line("2. Save to ~/.config/moltbook/credentials.json")>>

\* A variant of the raw echo that keeps only the list of results
print_json_results_only(d) ==
    IF d.t = "object" /\ "results" \in DOMAIN d.v
    THEN <<Json(Obj([results |-> d.v.results]))>>
    ELSE <<Json(JNull)>>

\* console.print_json(json.dumps(data)): the whole value, re-serialized
print_json(d) == <<Json(d)>>

\* lines 402 and 412: list.sort(key=subscriber_count, reverse=True), a stable
\* sort, then the slice [:limit]
SubscriberCount(x) == Get(x, "subscriber_count", 0)

InsertBySubscribers(sorted, x) ==
    LET k == Cardinality({i \in 1..Len(sorted) :
                             SubscriberCount(sorted[i]) >= SubscriberCount(x)})
    IN SubSeq(sorted, 1, k) \o <<x>> \o SubSeq(sorted, k + 1, Len(sorted))

RECURSIVE SortBySubscribers(_)
SortBySubscribers(l) ==
    IF l = <<>> THEN <<>>
    ELSE InsertBySubscribers(SortBySubscribers(SubSeq(l, 1, Len(l) - 1)),
                             l[Len(l)])

\* A variant that caps the list before sorting it
ShownSubmoltsCappedFirst(l, n) == SortBySubscribers(SlicePrefix(l, n))

\* lines 402 and 412: the rows shown are submolts_list[:limit] after the sort
ShownSubmolts(l, n) == SlicePrefix(SortBySubscribers(l), n)

Unknown == <<"Unknown">>
NoTitle == <<"No title">>
Post == <<"post">>

Count(n) == [kind |-> "count", n |-> n]

\* lines 159-194
SearchRow(r, nt) ==
    LET title == IF Truthy(Get(r, "title", None)) THEN r.title
                 ELSE Get(r, "content", <<>>)
        item_id == IF Get(r, "type", Unknown) = Post THEN Get(r, "id", None)
                   ELSE Get(r, "post_id", <<>>)
    IN [id |-> OrEmpty(item_id), title |-> maybe_truncate(title, 50, nt),
        author |-> Get(Get(r, "author", <<>>), "name", Unknown)]

RenderSearch(d, nt) ==
    LET results == Get(d, "results", <<>>)
    IN IF Len(results) = 0 THEN <<Line("No results found")>>
       ELSE <<Line("Search Results for"), Count(Len(results)),
              Table([i \in 1..Len(results) |-> SearchRow(results[i], nt)]),
              Line("")>>

\* lines 244-251
VoteColor(upvotes) ==
    IF upvotes > 10000 THEN "bold red"
    ELSE IF upvotes > 1000 THEN "bold yellow"
    ELSE IF upvotes > 100 THEN "green"
    ELSE "dim"

\* lines 227-273 (offset is its default, 0)
PostBlock(post, nt) ==
    [kind |-> "post",
     color |-> VoteColor(Get(post, "upvotes", 0)),
     title |-> Get(post, "title", NoTitle),
     preview |-> IF Truthy(Get(post, "content", <<>>))
                 THEN maybe_truncate(post.content, 120, nt) ELSE None]

RenderBrowse(d, nt, lim) ==
    LET posts == Get(d, "posts", <<>>)
    IN IF Len(posts) = 0 THEN <<Line("No posts found")>>
       ELSE <<Line("Posts"), Count(Len(posts))>>
            \o [i \in 1..Len(posts) |-> PostBlock(posts[i], nt)]
            \o (IF Get(d, "has_more", FALSE)
                THEN <<[kind |-> "more",
                        next_offset |-> Get(d, "next_offset", 0 + lim)]>>
                ELSE <<>>)

\* lines 299-331
CommentsList(data) ==
    IF data.t = "list" THEN data.v.items
    ELSE IF "comments" \in DOMAIN data.v THEN data.v.comments
    ELSE Get(data.v, "results", <<>>)

CommentPanel(c, nt) ==
    [kind |-> "comment",
     author |-> Get(Get(c, "author", <<>>), "name", Unknown),
     upvotes |-> Get(c, "upvotes", 0),
     downvotes |-> Get(c, "downvotes", 0),
     content |-> maybe_truncate(Get(c, "content", <<>>), 300, nt)]

RenderComments(data, nt) ==
    LET l == CommentsList(data)
    IN IF Len(l) = 0 THEN <<Line("No comments found")>>
       ELSE <<Line("Comments"), Line("Post ID | Sort")>>
            \o [i \in 1..Len(l) |-> CommentPanel(l[i], nt)]

\* lines 345-381
RenderFetch(d) ==
    IF "post" \notin DOMAIN d \/ DOMAIN d.post = {}
    THEN <<Line("Post not found")>>
    ELSE <<Panel("Moltbook Post", Get(d.post, "title", NoTitle))>>
         \o (IF Truthy(Get(d.post, "content", <<>>))
             THEN <<Line(""), [kind |-> "content", text |-> d.post.content]>>
             ELSE <<>>)
         \o <<Line(""), Line("Post ID")>>

\* lines 395-420
SubmoltRow(x) ==
    [name |-> Get(x, "display_name", Get(x, "name", Unknown)),
     count |-> SubscriberCount(x),
     desc |-> truncate_text(Get(x, "description", <<>>), 60)]

RenderSubmolts(d, lim) ==
    LET l == Get(d, "submolts", <<>>)
        rows == ShownSubmolts(l, lim)
    IN IF Len(l) = 0 THEN <<Line("No submolts found")>>
       ELSE <<Line("Submolts (Communities)"), Count(Len(l)),
              Table([i \in 1..Len(rows) |-> SubmoltRow(rows[i])]),
              Line("")>>

\* lines 474-500
RenderWhoami(d) ==
    IF ~Get(d, "success", FALSE)
    THEN <<ErrorLine(Get(d, "error", "Unknown error"), 0)>>
         \o (IF "hint" \in DOMAIN d THEN <<Line(d.hint)>> ELSE <<>>)
    ELSE LET agent == Get(d, "agent", <<>>)
             description == Get(agent, "description", <<>>)
         IN <<Line("Moltbook Identity"),
              Table(<<[name |-> Get(agent, "name", Unknown),
                       description |->
                           IF Len(description) > 60
                           THEN SubSeq(description, 1, 60) \o Ellipsis
                           ELSE description]>>),
              Line("")>>

RenderFormatted(c, data, nt, lim) ==
    CASE c = "search" -> RenderSearch(data.v, nt)
      [] c = "browse" -> RenderBrowse(data.v, nt, lim)
      [] c = "comments" -> RenderComments(data, nt)
      [] c = "fetch" -> RenderFetch(data.v)
      [] c = "submolts" -> RenderSubmolts(data.v, lim)
      [] c = "whoami" -> RenderWhoami(data.v)

\* data.get(...) raises AttributeError on a value that is no dict; comments
\* takes a list as it is
FormattedRaises(c, data) ==
    data.t # "object" /\ ~(c = "comments" /\ data.t = "list")

\* The part of a command before its make_request call
CmdStart ==
    /\ pc = "cmd"
    /\ IF ChecksKey(cmd) /\ get_api_key_raises(env, file) # None
       THEN /\ raised' = get_api_key_raises(env, file)
            /\ pc' = "raised"
            /\ UNCHANGED <<auth, out>>
       ELSE IF ChecksKey(cmd) /\ ~Truthy(get_api_key(env, file))
       THEN IF cmd = "whoami"
            THEN /\ out' = out \o NoKeyConfigured
                 /\ pc' = "end"
                 /\ UNCHANGED <<auth, raised>>
            ELSE /\ out' = out \o NoKeyWarning
                 /\ auth' = CommandAuth(cmd)
                 /\ pc' = "call"
                 /\ UNCHANGED raised
       ELSE /\ auth' = CommandAuth(cmd)
            /\ pc' = "call"
            /\ UNCHANGED <<raised, out>>
    /\ UNCHANGED <<cmd, json_out, no_truncate, limit, env, file, envelope,
                   headers, attempt, last, sleeps, sent, result, exit_code,
                   text, max_length, shown>>

\* The part of a command after make_request returned
Render ==
    /\ pc = "returned"
    /\ cmd \in Commands
    /\ IF HasJsonOut(cmd) /\ json_out
       THEN /\ out' = out \o print_json(result)
            /\ pc' = "end"
            /\ UNCHANGED raised
       ELSE IF FormattedRaises(cmd, result)
       THEN /\ raised' = Exception("AttributeError")
            /\ pc' = "raised"
            /\ UNCHANGED out
       ELSE /\ out' = out \o RenderFormatted(cmd, result, no_truncate, limit)
            /\ pc' = "end"
            /\ UNCHANGED raised
    /\ UNCHANGED <<cmd, json_out, no_truncate, limit, env, file, envelope,
                   auth, headers, attempt, last, sleeps, sent, result,
                   exit_code, text, max_length, shown>>

(***************************************************************************)
(* SpecCli: one invocation of a command                                    *)
(***************************************************************************)
\* What the server may answer a command's GET with
CliResponses ==
    {Resp(200, None, "json"), Resp(200, None, "bad"), Resp(404, None, "bad"),
     Resp(503, None, "bad"), Exc("Timeout")}

Author == [name |-> <<"bot">>]
SearchResults ==
    <<[type |-> Post, id |-> <<"p", "1">>, title |-> <<"a", "\n", "b">>,
       author |-> Author],
      [type |-> <<"comment">>, post_id |-> <<"p", "2">>,
       content |-> <<"c">>]>>
Posts ==
    <<[id |-> <<"p", "1">>, title |-> <<"t">>, upvotes |-> 101,
       content |-> <<"a", "\r", "\n", "b">>, author |-> Author],
      [id |-> <<"p", "2">>]>>
Comments ==
    <<[author |-> Author, upvotes |-> 2, content |-> <<"c", "\n">>],
      [downvotes |-> 1]>>
Submolt(i, n) ==
    IF n < 0
    THEN [name |-> <<"s", i>>, description |-> <<"d", "\n", "e">>]
    ELSE [name |-> <<"s", i>>, description |-> <<"d", "\n", "e">>,
          subscriber_count |-> n]

Envelopes(c) ==
    CASE c = "search" ->
           {Obj([results |-> SearchResults, count |-> 2]),
            Obj([results |-> <<>>]), JList(<<>>)}
      [] c = "browse" ->
           {Obj([posts |-> Posts, has_more |-> TRUE]),
            Obj([posts |-> Posts, has_more |-> TRUE, next_offset |-> 40]),
            OtherObject}
      [] c = "comments" ->
           {JList(Comments), Obj([comments |-> Comments]),
            Obj([results |-> Comments]),
            Obj([comments |-> <<>>, results |-> Comments]), JNull}
      [] c = "fetch" ->
           {Obj([post |-> Posts[1]]), Obj([post |-> Posts[2]]), OtherObject,
            JNull}
      [] c = "submolts" ->
           {Obj([submolts |-> <<Submolt(1, 1), Submolt(2, 2)>>,
                 total_posts |-> 7]),
            OtherObject, JList(<<>>)}
      [] c = "whoami" ->
           {Obj([success |-> TRUE,
                 agent |-> [name |-> <<"bot">>, description |-> <<"d">>]]),
            Obj([success |-> FALSE, error |-> "Invalid API key"]),
            Obj([success |-> FALSE, hint |-> "Register first"])}

\* The default value of each command's --limit
DefaultLimit(c) ==
    CASE c = "search" -> 10 [] c = "browse" -> 20 [] c = "submolts" -> 50
      [] OTHER -> 0

InitCli ==
    /\ pc = "cmd"
    /\ cmd \in Commands
    /\ json_out \in (IF HasJsonOut(cmd) THEN BOOLEAN ELSE {FALSE})
    /\ no_truncate \in (IF cmd \in {"search", "browse", "comments"}
                        THEN BOOLEAN ELSE {FALSE})
    /\ limit = DefaultLimit(cmd)
    /\ env \in EnvValues
    /\ file \in (IF ChecksKey(cmd) THEN FileStates ELSE {"missing", "key"})
    /\ envelope \in Envelopes(cmd)
    /\ auth = FALSE
    /\ InitLocals
    /\ NoTruncateCall

NextCli ==
    \/ CmdStart
    \/ MakeRequestStart
    \/ \E r \in CliResponses : Request(r)
    \/ Render

SpecCli == InitCli /\ [][NextCli]_vars

(***************************************************************************)
(* SpecSubmolts: the submolts command in formatted mode, over every list   *)
(* of submolts and every limit within the bounds                           *)
(***************************************************************************)
MaxSubmolts == 3
MaxSubscribers == 2

\* subscriber_count of an entry; -1 stands for an entry without the field
CountChoices == -1..MaxSubscribers

SubmoltLists ==
    UNION {{[i \in 1..n |-> Submolt(i, f[i])] : f \in [1..n -> CountChoices]}
           : n \in 0..MaxSubmolts}

Limits == (0 - MaxSubmolts - 1)..(MaxSubmolts + 1)

InitSubmolts ==
    /\ pc = "cmd"
    /\ cmd = "submolts"
    /\ json_out = FALSE
    /\ no_truncate = FALSE
    /\ limit \in Limits
    /\ env = None
    /\ file = "missing"
    /\ envelope \in {Obj([submolts |-> l]) : l \in SubmoltLists}
    /\ auth = FALSE
    /\ InitLocals
    /\ NoTruncateCall

SpecSubmolts == InitSubmolts /\ [][NextCli]_vars

(***************************************************************************)
(* Properties of the command handlers                                      *)
(***************************************************************************)
Rendered == pc = "end" /\ cmd \in Commands /\ last = Resp(200, None, "json")

\* The rows of the table the command printed
Rows == IF \E i \in 1..Len(out) : out[i].kind = "table"
        THEN out[CHOOSE i \in 1..Len(out) : out[i].kind = "table"].rows
        ELSE <<>>

Listed == envelope.v.submolts
Total == Len(Listed)
Min(a, b) == IF a < b THEN a ELSE b
Max(a, b) == IF a > b THEN a ELSE b

\* The place in the response of the submolt a row shows
PlaceOf(row) == CHOOSE i \in 1..Total : Listed[i].name = row.name
IsShown(i) == \E k \in 1..Len(Rows) : PlaceOf(Rows[k]) = i

\* Rows in non-increasing order of subscribers, ties in response order, and
\* no submolt left out that the sort of the whole list puts before a row
RowsAreTopOfFullSort ==
    /\ \A k \in 1..Len(Rows) :
          /\ \E i \in 1..Total : Listed[i].name = Rows[k].name
          /\ Rows[k].count = SubscriberCount(Listed[PlaceOf(Rows[k])])
    /\ \A j, k \in 1..Len(Rows) :
          j < k => /\ Rows[j].count >= Rows[k].count
                   /\ Rows[j].count = Rows[k].count
                        => PlaceOf(Rows[j]) < PlaceOf(Rows[k])
    /\ \A i \in 1..Total : \A k \in 1..Len(Rows) :
          ~IsShown(i) =>
             \/ SubscriberCount(Listed[i]) < Rows[k].count
             \/ /\ SubscriberCount(Listed[i]) = Rows[k].count
                /\ i > PlaceOf(Rows[k])

\* C9, in the specification's words: sorted rows, the first ones of the sort
\* of the whole list, and min(limit, total) of them.
C9_SortedAndMinLimitTotalRows ==
    (Rendered /\ cmd = "submolts" /\ ~json_out) =>
        /\ RowsAreTopOfFullSort
        /\ Len(Rows) = Min(limit, Total)

\* C9, as the code has it: the same order, and min(limit, total) rows for a
\* limit >= 0 but max(0, total + limit) rows for a negative limit (the slice
\* [:limit] drops the last -limit rows).
C9_SortedAndSlicedRows ==
    (Rendered /\ cmd = "submolts" /\ ~json_out) =>
        /\ RowsAreTopOfFullSort
        /\ Len(Rows) = IF limit >= 0 THEN Min(limit, Total)
                       ELSE Max(0, Total + limit)

\* A listing cut by a negative limit, with a tie among its rows and a larger
\* entry late in the response
C9_Witness ==
    /\ Rendered /\ cmd = "submolts" /\ ~json_out
    /\ limit < 0
    /\ Len(Rows) = 2
    /\ Total = 3
    /\ Rows[1].count = Rows[2].count
    /\ PlaceOf(Rows[2]) = 3
    /\ SubscriberCount(Listed[2]) < Rows[1].count

====
